---- MODULE Spec2Model ----
(***************************************************************************)
(* Model of the EML ingestion pipeline of crm-automator:                   *)
(* EMLProcessor.process (src/eml/eml_automator.py) together with the       *)
(* idempotency ledger (src/eml/persistence.py) and the CRM client calls    *)
(* it issues (src/eml/crm_client.py).                                      *)
(*                                                                         *)
(* Identifiers returned by the CRM are positive integers; Python's None    *)
(* is modelled by 0 for identifiers (the code only tests them for          *)
(* truthiness) and by "" for strings.                                      *)
(***************************************************************************)
EXTENDS Integers, Sequences, FiniteSets, TLC

(***************************************************************************)
(* Bounds of the exploration.                                              *)
(***************************************************************************)
\* number of invocations of process in one behaviour
MaxRuns == 2
\* total number of addresses in To, Cc and Bcc of a message
MaxRcpt == 2
\* number of tasks the oracle suggests
MaxTasks == 2
\* parts of a multipart message
MaxParts == 2

(***************************************************************************)
(* Addresses.  Strings are opaque, so the string operations the code       *)
(* applies to an address are tabulated.                                    *)
(***************************************************************************)
Addrs ==
  {"sarah@cyberdyne.ai", "Sarah@cyberdyne.ai", "amy@acme.com",
   "me@Corp.com", "vip@partner.io", "joe@gmail.com"}

\* str.lower()
Lower(s) ==
  CASE s = "Sarah@cyberdyne.ai" -> "sarah@cyberdyne.ai"
    [] s = "SARAH@CYBERDYNE.AI" -> "sarah@cyberdyne.ai"
    [] s = "me@Corp.com" -> "me@corp.com"
    [] s = "Corp.com" -> "corp.com"
    [] OTHER -> s

\* email_addr.split("@")[-1] if "@" in email_addr else ""
DomainOf(a) ==
  CASE a \in {"sarah@cyberdyne.ai", "Sarah@cyberdyne.ai"} -> "cyberdyne.ai"
    [] a = "amy@acme.com" -> "acme.com"
    [] a = "me@Corp.com" -> "Corp.com"
    [] a = "vip@partner.io" -> "partner.io"
    [] a = "joe@gmail.com" -> "gmail.com"
    [] OTHER -> ""

\* EMLProcessor.internal_domains / internal_emails (lower-cased when loaded)
internal_domains == {"corp.com"}
internal_emails == {"vip@partner.io"}

\* RealTimeXClient.public_domains
no_public_domains == {}
public_domains ==
  {"gmail.com", "outlook.com", "yahoo.com", "hotmail.com", "icloud.com",
   "me.com", "msn.com"}

\* is_internal of the participant loop
IsInternalDomainOnly(a) == Lower(DomainOf(a)) \in internal_domains
IsInternalEmailOnly(a) == Lower(a) \in internal_emails
IsInternal(a) ==
  (Lower(DomainOf(a)) \in internal_domains) \/ (Lower(a) \in internal_emails)

(***************************************************************************)
(* The CRM's identity space: the record a successful upsert resolves to.   *)
(***************************************************************************)
CompanyIdOf(d) ==
  CASE d = "cyberdyne.ai" -> 1
    [] d = "acme.com" -> 2
    [] d = "partner.io" -> 3
    [] OTHER -> 4

ContactIdOf(a) ==
  CASE Lower(a) = "sarah@cyberdyne.ai" -> 11
    [] Lower(a) = "amy@acme.com" -> 12
    [] Lower(a) = "joe@gmail.com" -> 13
    [] Lower(a) = "vip@partner.io" -> 14
    [] OTHER -> 15

(***************************************************************************)
(* Messages: the headers process reads from the parsed file.               *)
(***************************************************************************)
Range(s) == {s[k] : k \in 1..Len(s)}

SeqsUpTo(S, n) == UNION {[1..k -> S] : k \in 0..n}

MessageIds == {"", "m1", "m2"}

Messages ==
  {m \in [id : MessageIds, from : Addrs \cup {""},
          to : SeqsUpTo(Addrs, 1), cc : SeqsUpTo(Addrs, 1),
          bcc : SeqsUpTo(Addrs, 1)] :
     Len(m.to) + Len(m.cc) + Len(m.bcc) <= MaxRcpt}

\* a MIME part: content type, Content-Disposition, filename and decoded payload
Part(type, disposition, filename, payload) ==
  [type |-> type, disposition |-> disposition, filename |-> filename,
   payload |-> payload]

Parts ==
  {Part(t, d, f, p) : t \in {"text/plain", "text/html", "image/png"},
                      d \in {"", "attachment"}, f \in {"", "a.txt"},
                      p \in {"P1", "P2"}}

\* the body structure of a mail file: a single part, or a multipart of parts
SinglePlain == [multipart |-> FALSE, parts |-> <<Part("text/plain", "", "", "P1")>>]
Bodies(sc) ==
  IF sc = "parse"
  THEN {[multipart |-> TRUE, parts |-> ps] : ps \in SeqsUpTo(Parts, MaxParts)}
         \cup {[multipart |-> FALSE, parts |-> <<Part(t, "", "", "P1")>>] :
                 t \in {"text/plain", "text/html"}}
  ELSE {SinglePlain}

\* the loop over msg.walk(): body, html_body and attachments after the first
\* k parts
RECURSIVE Walk(_, _)
Walk(parts, k) ==
  IF k = 0 THEN [body |-> "", html_body |-> "", attachments |-> <<>>]
  ELSE LET before == Walk(parts, k - 1)
           part == parts[k]
           inline == part.disposition # "attachment"
       IN  [body |-> IF inline /\ part.type = "text/plain" THEN part.payload
                     ELSE before.body,
            html_body |-> IF inline /\ part.type = "text/html" THEN part.payload
                          ELSE before.html_body,
            attachments |-> IF part.filename # ""
                            THEN Append(before.attachments, part.filename)
                            ELSE before.attachments]

\* parse_eml: the headers with the bodies and the attachment list
ParseEml(m, b) ==
  LET walked == IF b.multipart THEN Walk(b.parts, Len(b.parts))
                ELSE IF b.parts[1].type = "text/html"
                     THEN [body |-> "", html_body |-> b.parts[1].payload,
                           attachments |-> <<>>]
                     ELSE [body |-> b.parts[1].payload, html_body |-> "",
                           attachments |-> <<>>]
  IN  [id |-> m.id, from |-> m.from, to |-> m.to, cc |-> m.cc, bcc |-> m.bcc,
       multipart |-> b.multipart, parts |-> b.parts, body |-> walked.body,
       html_body |-> walked.html_body, attachments |-> walked.attachments]

\* participants_raw: the sender followed by To, Cc and Bcc
ParticipantsRaw(m) == <<m.from>> \o m.to \o m.cc \o m.bcc

\* the seen_emails loop: keep an address when it is non-empty and not seen yet
RECURSIVE DedupLoop(_, _, _)
DedupLoop(raw, k, acc) ==
  IF k > Len(raw) THEN acc
  ELSE DedupLoop(raw, k + 1,
         IF raw[k] # "" /\ raw[k] \notin Range(acc)
         THEN Append(acc, raw[k]) ELSE acc)

DedupKeepAll(raw) == SelectSeq(raw, LAMBDA a : a # "")
Dedup(raw) == DedupLoop(raw, 1, <<>>)

(***************************************************************************)
(* The oracle's reply (AnalysisResult) as process reads it.                *)
(***************************************************************************)
NoneInfo == [some |-> FALSE, email |-> "", company |-> "", title |-> ""]
Info(e, c, t) == [some |-> TRUE, email |-> e, company |-> c, title |-> t]

NoneDetails == [some |-> FALSE, name |-> "", sector |-> "", description |-> ""]
Details(n, s, d) == [some |-> TRUE, name |-> n, sector |-> s, description |-> d]

NoneDeal == [some |-> FALSE, name |-> "", amount |-> 0, stage |-> "", category |-> ""]
DealA == [some |-> TRUE, name |-> "Cloud security", amount |-> 50, stage |-> "discovery",
          category |-> "new"]

TaskA == [description |-> "Schedule deep dive", due_date |-> "2025-12-29",
          priority |-> "High", status |-> "todo"]
TaskB == [description |-> "Send quote", due_date |-> "", priority |-> "Low",
          status |-> "in_progress"]

\* suggested_tasks: A, B, A, B, ... up to n tasks
TaskList(n) == [k \in 1..n |-> IF k % 2 = 1 THEN TaskA ELSE TaskB]

\* analyze_text returned None
NullAnalysis ==
  [ok |-> FALSE, summary |-> "", sentiment |-> "", intent |-> "",
   sender_info |-> NoneInfo, other_contacts |-> <<>>,
   company_details |-> NoneDetails, company_search_query |-> "",
   primary_contact_email |-> "", suggested_tasks |-> <<>>, deal_info |-> NoneDeal]

Analysis(intent, sinfo, others, details, query, primary, tasks, deal) ==
  [ok |-> TRUE, summary |-> "Looking for cloud security", sentiment |-> "Positive",
   intent |-> intent, sender_info |-> sinfo, other_contacts |-> others,
   company_details |-> details, company_search_query |-> query,
   primary_contact_email |-> primary, suggested_tasks |-> tasks, deal_info |-> deal]

\* replies that differ in the follow-ups they ask for
FollowUpReplies ==
  {Analysis(intent, Info("", "", ""), <<>>, NoneDetails, "", "", TaskList(n), deal) :
     intent \in {"Sales", "Demo", "Support"}, n \in 0..MaxTasks,
     deal \in {NoneDeal, DealA}}

\* replies that differ in the primary contact they suggest
SuggestionReplies ==
  {Analysis("Sales", Info("", "", ""), <<>>, NoneDetails, "", primary,
            TaskList(1), DealA) :
     primary \in {"", "SARAH@CYBERDYNE.AI", "amy@acme.com", "joe@gmail.com"}}

\* replies that differ in the facts they carry about people and companies
FactReplies ==
  {Analysis("Sales", Info(e, c, "CTO"), others, details, query, "",
            TaskList(1), DealA) :
     e \in {"", "Sarah@cyberdyne.ai"}, c \in {"", "Cyberdyne"},
     others \in {<<>>, <<Info("amy@acme.com", "Acme", "Buyer")>>},
     details \in {NoneDetails, Details("Cyberdyne", "", ""),
                  Details("", "", "Maker"), Details("Cyberdyne", "AI", "Maker")},
     query \in {"", "cyberdyne.ai company"}}

\* the facts website scraping and a search provider come back with
ScrapedFacts == Details("Cyberdyne Systems", "Robotics", "Skynet")
SearchedFacts == Details("Cyberdyne Systems", "", "Skynet")

\* SEARCH_PROVIDERS, default order
provider_order == <<"duckduckgo", "serper", "serpapi">>

\* what the enrichment methods answer to one web_search_company call: the
\* facts scraped from the website (None when scraping fails), and for each
\* provider whether the search raises, finds nothing, finds results that the
\* parsing step cannot turn into facts, or finds results parsed into facts
ProviderAnswers == {"raise", "empty", "unparsed", "facts"}
AllSearchEnvs ==
  [scrape : {NoneDetails, ScrapedFacts},
   providers : [1..Len(provider_order) -> ProviderAnswers]]
SearchEnvs(sc) ==
  IF sc = "search" THEN AllSearchEnvs
  ELSE {e \in AllSearchEnvs :
          /\ \A k \in 2..Len(provider_order) : e.providers[k] = "empty"
          /\ e.providers[1] \in {"empty", "facts"}
          /\ e.scrape.some => e.providers[1] = "empty"}

\* _extract_domain_from_query on the queries of the model
ExtractDomainFromQuery(query) ==
  CASE query = "cyberdyne.ai company" -> "cyberdyne.ai"
    [] OTHER -> ""

\* the provider loop from position k on; tried lists the methods called
RECURSIVE TryProviders(_, _, _)
TryProviders(answers, k, tried) ==
  IF k > Len(answers) THEN [result |-> NoneDetails, tried |-> tried]
  ELSE LET called == Append(tried, provider_order[k])
       IN CASE answers[k] = "facts" -> [result |-> SearchedFacts, tried |-> called]
            [] answers[k] = "unparsed" -> [result |-> NoneDetails, tried |-> called]
            [] OTHER -> TryProviders(answers, k + 1, called)

\* web_search_company(query)
WebSearchCompany(query, env) ==
  IF ExtractDomainFromQuery(query) # ""
  THEN IF env.scrape.some THEN [result |-> env.scrape, tried |-> <<"scrape">>]
       ELSE TryProviders(env.providers, 1, <<"scrape">>)
  ELSE TryProviders(env.providers, 1, <<>>)

\* extracted_info_map.get(email_lower), then the sender fallback
RECURSIVE LastMatch(_, _, _)
LastMatch(others, k, key) ==
  IF k = 0 THEN NoneInfo
  ELSE IF others[k].email # "" /\ Lower(others[k].email) = key THEN others[k]
  ELSE LastMatch(others, k - 1, key)

PartInfo(a, addr, is_sender) ==
  LET key == Lower(addr)
      other == LastMatch(a.other_contacts, Len(a.other_contacts), key)
      mapped == IF other.some THEN other
                ELSE IF a.ok /\ a.sender_info.email # ""
                        /\ Lower(a.sender_info.email) = key
                     THEN a.sender_info ELSE NoneInfo
  IN  IF ~mapped.some /\ is_sender /\ a.ok THEN a.sender_info ELSE mapped

\* the fill-only-empty loop over search_results.model_fields
MergeDetailsOverwrite(d, r) ==
  [some |-> TRUE,
   name |-> IF r.name # "" THEN r.name ELSE d.name,
   sector |-> IF r.sector # "" THEN r.sector ELSE d.sector,
   description |-> IF r.description # "" THEN r.description ELSE d.description]
MergeDetails(d, r) ==
  [some |-> TRUE,
   name |-> IF d.name = "" THEN r.name ELSE d.name,
   sector |-> IF d.sector = "" THEN r.sector ELSE d.sector,
   description |-> IF d.description = "" THEN r.description ELSE d.description]

\* company_details.model_dump(exclude={"name", "website", "email"})
NoKwargs == [given |-> FALSE, sector |-> "", description |-> ""]
DumpDetails(d) == [given |-> TRUE, sector |-> d.sector, description |-> d.description]

\* company_kwargs: {} unless the extracted details are used for the participant
CompanyKwargsAlways(use, details) == DumpDetails(details)
CompanyKwargs(use, details) == IF use THEN DumpDetails(details) ELSE NoKwargs

(***************************************************************************)
(* State.  Four scopes are explored: "ledger" follows several runs on a    *)
(* few messages with every answer of the ledger, the file system and the   *)
(* upload; "resolve", "select" and "notes" follow one run on every message *)
(* of Messages, with every answer of the CRM upserts ("resolve"), every    *)
(* suggestion of a primary contact ("select"), and every answer to the     *)
(* activity calls ("notes").                                               *)
(***************************************************************************)
VARIABLES
  scope,                \* which mail files and oracle replies are explored
  ledger,               \* processed_resources: the resource ids recorded
  runs,                 \* number of invocations of process started so far
  completed,            \* ids of the runs that created an activity and returned
  pc,                   \* position of the current run in process
  msg,                  \* headers of the file being processed
  force,                \* the force argument
  analysis,             \* the oracle's reply (company_details is updated in place)
  participants,         \* deduplicated addresses
  i,                    \* index of the participant loop (1-based)
  primary_company_id,
  resolved_contacts,    \* sequence of <<email, contact id>>
  company_cache,        \* domain -> company id
  contact_cache,        \* email -> contact id
  primary_contact_id,
  file_content,         \* whether the file could be read again for the upload
  eml_attachment_url,
  idx,                  \* index of the note loop, then of the task loop (0-based)
  calls,                \* the collaborator calls of the current run, in order
  ledger0               \* the ledger when the current run started

runVars ==
  <<msg, force, analysis, participants, i, primary_company_id, resolved_contacts,
    company_cache, contact_cache, primary_contact_id, file_content,
    eml_attachment_url, idx, calls, ledger0>>

vars == <<scope, ledger, runs, completed, pc, runVars>>

NoMessage == [id |-> "", from |-> "", to |-> <<>>, cc |-> <<>>, bcc |-> <<>>,
              multipart |-> FALSE, parts |-> <<>>, body |-> "", html_body |-> "",
              attachments |-> <<>>]
StaleCache == [k \in {"cyberdyne.ai"} |-> 1]
EmptyCache == [k \in {} |-> 0]

\* the mail files process is run on
Mailbox(sc) ==
  CASE sc = "ledger" ->
         {m \in Messages :
            /\ m.id \in {"", "m1"} /\ m.cc = <<>> /\ m.bcc = <<>>
            /\ m.from \in {"", "sarah@cyberdyne.ai", "me@Corp.com"}
            /\ Range(m.to) \subseteq {"Sarah@cyberdyne.ai", "amy@acme.com",
                                      "me@Corp.com", "joe@gmail.com"}}
    [] sc \in {"crm", "enrich"} ->
         {m \in Messages :
            /\ m.id = "m1" /\ m.cc = <<>> /\ m.bcc = <<>>
            /\ m.from \in {"sarah@cyberdyne.ai", "me@Corp.com", "joe@gmail.com"}
            /\ Range(m.to) \subseteq {"Sarah@cyberdyne.ai", "amy@acme.com",
                                      "me@Corp.com", "joe@gmail.com"}}
    [] sc = "search" ->
         {m \in Messages :
            /\ m.id = "m1" /\ m.cc = <<>> /\ m.bcc = <<>>
            /\ m.from = "sarah@cyberdyne.ai"
            /\ Range(m.to) \subseteq {"Sarah@cyberdyne.ai", "me@Corp.com"}}
    [] sc = "parse" ->
         {m \in Messages :
            /\ m.id = "m1" /\ m.cc = <<>> /\ m.bcc = <<>>
            /\ m.from = "sarah@cyberdyne.ai"
            /\ Range(m.to) \subseteq {"me@Corp.com"}}
    [] sc = "rerun" ->
         {m \in Messages :
            /\ m.cc = <<>> /\ m.bcc = <<>>
            /\ m.from = "sarah@cyberdyne.ai"
            /\ Range(m.to) \subseteq {"Sarah@cyberdyne.ai", "amy@acme.com",
                                      "me@Corp.com", "joe@gmail.com"}}
    [] OTHER -> {m \in Messages : m.id = "m1"}

\* the replies of the oracle
Replies(sc) ==
  CASE sc = "ledger" -> {NullAnalysis} \cup FollowUpReplies
    [] sc = "resolve" ->
         {NullAnalysis,
          Analysis("Sales", Info("sarah@cyberdyne.ai", "Cyberdyne", "CTO"), <<>>,
                   Details("Cyberdyne", "", ""), "cyberdyne.ai company", "",
                   TaskList(1), DealA)}
    [] sc = "select" -> SuggestionReplies
    [] sc = "crm" ->
         {NullAnalysis,
          Analysis("Sales", Info("sarah@cyberdyne.ai", "Cyberdyne", "CTO"), <<>>,
                   Details("Cyberdyne", "AI", ""), "", "", TaskList(1), DealA)}
    [] sc = "enrich" -> FactReplies
    [] sc = "search" ->
         {NullAnalysis} \cup
         {Analysis("Sales", Info("Sarah@cyberdyne.ai", "Cyberdyne", "CTO"), <<>>,
                   Details("Cyberdyne", "", ""), query, "", TaskList(1), DealA) :
            query \in {"cyberdyne.ai company", "Cyberdyne company"}}
    [] OTHER ->
         {NullAnalysis,
          Analysis("Sales", Info("", "", ""), <<>>, NoneDetails, "", "",
                   TaskList(1), DealA)}

RunBudget(sc) == IF sc \in {"ledger", "rerun"} THEN MaxRuns ELSE 1

\* the force argument, and whether the ledger lookup hits a storage error
Forces(sc) == IF sc \in {"ledger", "rerun"} THEN BOOLEAN ELSE {FALSE}
LookupErrors(sc) == IF sc \in {"ledger", "rerun"} THEN BOOLEAN ELSE {FALSE}

\* whether the file can be read again before the upload
FileReads(sc) == IF sc \in {"ledger", "notes"} THEN BOOLEAN ELSE {TRUE}

Locals0 ==
  /\ msg = NoMessage /\ force = FALSE /\ analysis = NullAnalysis
  /\ participants = <<>> /\ i = 1
  /\ primary_company_id = 0 /\ resolved_contacts = <<>>
  /\ company_cache = EmptyCache /\ contact_cache = EmptyCache
  /\ primary_contact_id = 0 /\ file_content = FALSE /\ eml_attachment_url = ""
  /\ idx = 0 /\ calls = <<>> /\ ledger0 = {}

InitCommon ==
  /\ ledger = {} /\ runs = 0 /\ completed = {} /\ pc = "idle" /\ Locals0

Init == scope = "ledger" /\ InitCommon
InitResolve == scope = "resolve" /\ InitCommon
InitSelect == scope = "select" /\ InitCommon
InitNotes == scope = "notes" /\ InitCommon
InitCrm == scope = "crm" /\ InitCommon
InitEnrich == scope = "enrich" /\ InitCommon
InitRerun == scope = "rerun" /\ InitCommon
InitSearch == scope = "search" /\ InitCommon
InitParse == scope = "parse" /\ InitCommon

(***************************************************************************)
(* PersistenceLayer                                                        *)
(***************************************************************************)
\* is_already_processed: False for an empty id and on a storage error
IsAlreadyProcessedFailClosed(id, db, err) ==
  IF id = "" THEN FALSE ELSE IF err THEN TRUE ELSE id \in db
IsAlreadyProcessedGuardInverted(id, db, err) ==
  IF id # "" THEN FALSE ELSE IF err THEN FALSE ELSE id \in db
IsAlreadyProcessed(id, db, err) ==
  IF id = "" THEN FALSE ELSE IF err THEN FALSE ELSE id \in db

\* mark_as_processed: INSERT OR IGNORE; an error of execute/commit is swallowed
MarkAsProcessedReplace(id, db, out) ==
  IF id = "" THEN db ELSE IF out = "ok" THEN {id} ELSE db
MarkAsProcessedNoGuard(id, db, out) ==
  IF out = "ok" THEN db \cup {id} ELSE db
MarkAsProcessed(id, db, out) ==
  IF id = "" THEN db ELSE IF out = "ok" THEN db \cup {id} ELSE db

MarkOutcomes(id) == IF id = "" THEN {"ok"} ELSE {"ok", "exec_error", "connect_error"}

(***************************************************************************)
(* RealTimeXClient as process sees it                                      *)
(***************************************************************************)
\* what the CRM answers to the requests of one upsert call
AllDown == [site |-> "error", name |-> "error", post |-> "fail"]
Fresh == [site |-> "miss", name |-> "miss", post |-> "ok"]
CrmEnvs(sc) ==
  CASE sc \in {"ledger", "resolve"} -> {AllDown, Fresh}
    [] sc = "crm" -> [site : {"hit", "miss", "error"}, name : {"hit", "miss", "error"},
                      post : {"ok", "fail"}]
    [] OTHER -> {Fresh}

ContactDown == [search |-> "error", post |-> "fail"]
ContactFresh == [search |-> "miss", post |-> "ok"]
ContactEnvs(sc) ==
  CASE sc \in {"notes", "enrich", "rerun", "search", "parse"} -> {ContactFresh}
    [] sc = "crm" -> [search : {"hit", "miss", "error"}, post : {"ok", "fail"}]
    [] OTHER -> {ContactDown, ContactFresh}

\* upsert_company(name, website, **kwargs): the id returned, the requests made
\* and the search that returned an existing company
UpsertCompany(name, website, kwargs, env) ==
  IF website # "" /\ Lower(website) \in public_domains
  THEN [id |-> 0, requests |-> <<>>, found |-> "none"]
  ELSE LET filtered == kwargs.given
           patch == IF filtered THEN <<"PATCH">> ELSE <<>>
           bysite == IF website # "" THEN <<"GET website">> ELSE <<>>
           byname == IF env.name = "hit" THEN "name" ELSE "none"
       IN  IF website # "" /\ env.site = "hit"
           THEN [id |-> CompanyIdOf(website), requests |-> bysite \o patch,
                 found |-> "website"]
           ELSE IF env.name = "hit" /\ filtered
           THEN [id |-> CompanyIdOf(website),
                 requests |-> bysite \o <<"GET name", "PATCH">>, found |-> byname]
           ELSE [id |-> IF env.post = "ok" THEN CompanyIdOf(website) ELSE 0,
                 requests |-> bysite \o <<"GET name", "POST">>, found |-> byname]

\* upsert_contact(email_addr, company_id=..., **kwargs); the messages carry bare
\* addresses, so first_name and last_name are empty
UpsertContactCreateOnly(email_addr, company_id, kwargs, env) ==
  [id |-> IF env.post = "ok" THEN ContactIdOf(email_addr) ELSE 0,
   requests |-> <<"POST">>, found |-> (env.search = "hit")]
UpsertContact(email_addr, company_id, kwargs, env) ==
  IF env.search = "hit"
  THEN [id |-> ContactIdOf(email_addr),
        requests |-> <<"GET email">> \o
                     (IF company_id # 0 \/ kwargs.title # "" THEN <<"PATCH">>
                      ELSE <<>>),
        found |-> TRUE]
  ELSE [id |-> IF env.post = "ok" THEN ContactIdOf(email_addr) ELSE 0,
        requests |-> <<"GET email", "POST">>, found |-> FALSE]

\* log_activity_with_response: (success, src of the first attachment); bad
\* is a 200 answer whose data.attachments is null, on which len() raises
Failed == [ok |-> FALSE, src |-> "", bad |-> FALSE]
Accepted(src) == [ok |-> TRUE, src |-> src, bad |-> FALSE]
Malformed == [ok |-> TRUE, src |-> "", bad |-> TRUE]

UploadResponses(sc) ==
  CASE sc = "ledger" -> {Failed, Accepted(""), Accepted("url1"), Accepted("url2")}
    [] sc \in {"resolve", "select", "rerun", "search", "parse"} -> {Accepted("url1")}
    [] OTHER -> {Failed, Accepted(""), Accepted("url1"), Accepted("url2"), Malformed}

\* log_activity: whether the CRM answered 200 or 201
NoteResponses(sc) == IF sc = "notes" THEN {Failed, Accepted("")} ELSE {Accepted("")}

(***************************************************************************)
(* EMLProcessor.process                                                    *)
(***************************************************************************)
\* parse_eml raises: the file cannot be read or parsed
ParseFail ==
  /\ pc = "idle" /\ runs < RunBudget(scope)
  /\ runs' = runs + 1
  /\ pc' = "raised"
  /\ ledger0' = ledger
  /\ UNCHANGED <<scope, ledger, completed, msg, force, analysis, participants, i,
                 primary_company_id, resolved_contacts, company_cache, contact_cache,
                 primary_contact_id, file_content, eml_attachment_url, idx, calls>>

\* parse_eml succeeds, then the ledger check
ProcessBegin ==
  /\ pc = "idle" /\ runs < RunBudget(scope)
  /\ \E m \in Mailbox(scope), b \in Bodies(scope), f \in Forces(scope),
        err \in LookupErrors(scope) :
       /\ msg' = ParseEml(m, b) /\ force' = f
       /\ IF f
          THEN /\ calls' = <<>>
               /\ pc' = "oracle"
          ELSE /\ calls' = <<[op |-> "is_already_processed", id |-> m.id,
                              error |-> (m.id # "" /\ err)]>>
               /\ pc' = IF IsAlreadyProcessed(m.id, ledger, err)
                        THEN "skipped" ELSE "oracle"
  /\ runs' = runs + 1
  /\ ledger0' = ledger
  /\ UNCHANGED <<scope, ledger, completed, analysis, participants, i,
                 primary_company_id, resolved_contacts, company_cache, contact_cache,
                 primary_contact_id, file_content, eml_attachment_url, idx>>

\* analyze_text, then the participant list and the fresh locals of the loop.
\* self.ai is the collaborator handed to the constructor: the call returns an
\* analysis, returns None, or raises (analyze_text of intelligence.py has no
\* metadata parameter, so the call of line 123 raises TypeError with it)
Analyze ==
  /\ pc = "oracle"
  /\ \/ /\ pc' = "raised"
        /\ calls' = Append(calls, [op |-> "analyze_text", result |-> "raise"])
        /\ UNCHANGED <<analysis, participants>>
     \/ \E a \in Replies(scope) :
          /\ analysis' = a
          /\ calls' = Append(calls, [op |-> "analyze_text",
                                     result |-> IF a.ok THEN "analysis" ELSE "none"])
          /\ participants' = Dedup(ParticipantsRaw(msg))
          /\ pc' = "resolve"
  /\ i' = 1
  /\ primary_company_id' = 0 /\ resolved_contacts' = <<>>
  /\ company_cache' = EmptyCache /\ contact_cache' = EmptyCache
  /\ UNCHANGED <<scope, ledger, runs, completed, msg, force, primary_contact_id,
                 file_content, eml_attachment_url, idx, ledger0>>

\* participant loop, internal participant: continue
SkipInternal ==
  /\ pc = "resolve" /\ i <= Len(participants)
  /\ IsInternal(participants[i])
  /\ i' = i + 1
  /\ UNCHANGED <<scope, ledger, runs, completed, pc, msg, force, analysis,
                 participants, primary_company_id, resolved_contacts, company_cache,
                 contact_cache, primary_contact_id, file_content,
                 eml_attachment_url, idx, calls, ledger0>>

CacheHitNever(domain, cache) == FALSE
CacheHit(domain, cache) == domain \in DOMAIN cache

\* `if company_id: company_cache[domain] = company_id`
CacheStoreAlways(cache, domain, co) == (domain :> co) @@ cache
CacheStore(cache, domain, co) == IF co # 0 THEN (domain :> co) @@ cache ELSE cache

\* `company_id=company_id or primary_company_id`
ContactCompanyOwnOnly(company_id, primary) == company_id
ContactCompany(company_id, primary) == IF company_id # 0 THEN company_id ELSE primary

\* contact_kwargs built from part_info
ContactKwargs(part_info) == IF part_info.some THEN [title |-> part_info.title]
                            ELSE [title |-> ""]

\* if company_id and not primary_company_id: primary_company_id = company_id
PrimaryCompanyLast(company_id, primary) == IF company_id # 0 THEN company_id ELSE primary
PrimaryCompany(company_id, primary) ==
  IF company_id # 0 /\ primary = 0 THEN company_id ELSE primary

\* if cid: resolved_contacts.append((email_addr, cid))
AppendResolvedAlways(resolved, email_addr, cid) == Append(resolved, <<email_addr, cid>>)
AppendResolved(resolved, email_addr, cid) ==
  IF cid # 0 THEN Append(resolved, <<email_addr, cid>>) ELSE resolved

\* participant loop, external participant: enrichment, company, contact
ResolveExternal ==
  /\ pc = "resolve" /\ i <= Len(participants)
  /\ ~IsInternal(participants[i])
  /\ LET email_addr == participants[i]
         domain == DomainOf(email_addr)
         is_sender == (email_addr = msg.from)
         part_info == PartInfo(analysis, email_addr, is_sender)
         details0 == analysis.company_details
         search == /\ part_info.some
                   /\ analysis.company_search_query # ""
                   /\ ~(details0.some /\ details0.sector # "")
         hit == CacheHit(domain, company_cache)
         upsert == domain # "" /\ ~hit
     IN \E senv \in (IF search THEN SearchEnvs(scope)
                     ELSE {[scrape |-> NoneDetails,
                            providers |-> [k \in 1..Len(provider_order) |-> "empty"]]}),
           cenv \in (IF upsert THEN CrmEnvs(scope) ELSE {AllDown}),
           penv \in ContactEnvs(scope) :
          LET ws == WebSearchCompany(analysis.company_search_query, senv)
              sr == ws.result
              details1 == IF search /\ sr.some
                          THEN (IF ~details0.some THEN sr
                                ELSE MergeDetails(details0, sr))
                          ELSE details0
              use == /\ part_info.some /\ details1.some
                     /\ (is_sender \/ part_info.company # "")
              company_name == IF use /\ details1.name # "" THEN details1.name
                              ELSE domain
              company_kwargs == CompanyKwargs(use, details1)
              company == UpsertCompany(company_name, domain, company_kwargs, cenv)
              co == company.id
              company_id == IF domain = "" THEN 0
                            ELSE IF hit THEN company_cache[domain] ELSE co
              primary1 == PrimaryCompany(company_id, primary_company_id)
              contact_company == ContactCompany(company_id, primary1)
              contact == UpsertContact(email_addr, contact_company,
                                       ContactKwargs(part_info), penv)
              cid == contact.id
              c1 == IF search
                    THEN <<[op |-> "web_search_company",
                            query |-> analysis.company_search_query,
                            found |-> sr.some, before |-> details0,
                            result |-> sr, after |-> details1,
                            env |-> senv, tried |-> ws.tried]>>
                    ELSE <<>>
              c2 == IF upsert
                    THEN <<[op |-> "upsert_company", addr |-> email_addr,
                            name |-> company_name, website |-> domain,
                            kwargs |-> company_kwargs, result |-> co,
                            requests |-> company.requests,
                            found |-> company.found]>>
                    ELSE <<>>
              c3 == <<[op |-> "upsert_contact", addr |-> email_addr,
                       company_id |-> contact_company,
                       kwargs |-> ContactKwargs(part_info), result |-> cid,
                       requests |-> contact.requests, found |-> contact.found]>>
          IN /\ analysis' = [analysis EXCEPT !.company_details = details1]
             /\ company_cache' = IF upsert THEN CacheStore(company_cache, domain, co)
                                 ELSE company_cache
             /\ primary_company_id' = primary1
             /\ contact_cache' = IF cid # 0 THEN (email_addr :> cid) @@ contact_cache
                                 ELSE contact_cache
             /\ resolved_contacts' = AppendResolved(resolved_contacts, email_addr, cid)
             /\ calls' = calls \o c1 \o c2 \o c3
  /\ i' = i + 1
  /\ UNCHANGED <<scope, ledger, runs, completed, pc, msg, force, participants,
                 primary_contact_id, file_content, eml_attachment_url, idx, ledger0>>

\* the contact id at the first of the given positions of resolved, None if none
FirstCid(resolved, hits) ==
  IF hits = {} THEN 0
  ELSE resolved[CHOOSE k \in hits : \A j \in hits : k <= j][2]

\* primary contact selection
PrimaryContactFirst(resolved, a, sender) == resolved[1][2]
PrimaryContactAsSuggested(resolved, a, sender) ==
  IF a.ok /\ a.primary_contact_email # ""
  THEN ContactIdOf(a.primary_contact_email)
  ELSE resolved[1][2]
PrimaryContact(resolved, a, sender) ==
  LET suggested ==
        IF a.ok /\ a.primary_contact_email # ""
        THEN FirstCid(resolved,
               {k \in 1..Len(resolved) :
                  Lower(resolved[k][1]) = Lower(a.primary_contact_email)})
        ELSE 0
      recipient ==
        IF suggested # 0 THEN suggested
        ELSE FirstCid(resolved, {k \in 1..Len(resolved) : resolved[k][1] # sender})
  IN  IF recipient # 0 THEN recipient ELSE resolved[1][2]

\* all_contact_ids
AllContactIds(resolved) == [k \in 1..Len(resolved) |-> resolved[k][2]]

\* the text of a contact note: sender label and the analysis lines
ActivityText(m, a) ==
  [label |-> IF m.from # "" /\ IsInternal(m.from) THEN "Internal Staff"
             ELSE "External Contact",
   sentiment |-> IF a.ok THEN a.sentiment ELSE "",
   intent |-> IF a.ok THEN a.intent ELSE "",
   summary |-> IF a.ok THEN a.summary ELSE ""]

\* "Action Logic": the empty-result halt, else primary contact and file read
ActionLogic ==
  /\ pc = "resolve" /\ i > Len(participants)
  /\ IF resolved_contacts = <<>>
     THEN /\ pc' = "halted"
          /\ UNCHANGED <<primary_contact_id, file_content>>
     ELSE /\ pc' = "notes"
          /\ primary_contact_id' = PrimaryContact(resolved_contacts, analysis, msg.from)
          /\ \E fc \in FileReads(scope) : file_content' = fc
  /\ eml_attachment_url' = ""
  /\ idx' = 0
  /\ UNCHANGED <<scope, ledger, runs, completed, msg, force, analysis, participants,
                 i, primary_company_id, resolved_contacts, company_cache,
                 contact_cache, calls, ledger0>>

\* if idx == 0 and file_content: the note that carries the file
UploadsFileSecond(k, fc) == k = 1 /\ fc
UploadsFileAlways(k, fc) == fc
UploadsFile(k, fc) == k = 0 /\ fc

\* one iteration of the note loop
CreateNote ==
  /\ pc = "notes" /\ idx < Len(resolved_contacts)
  /\ LET contact_id == AllContactIds(resolved_contacts)[idx + 1]
         text == ActivityText(msg, analysis)
     IN IF UploadsFile(idx, file_content)
        THEN \E r \in UploadResponses(scope) :
               /\ calls' = Append(calls,
                    [op |-> "log_activity", type |-> "contact_note",
                     contact_id |-> contact_id, company_id |-> 0, text |-> text,
                     files |-> TRUE, attachment |-> "", response |-> r])
               /\ eml_attachment_url' = IF r.ok /\ r.src # "" THEN r.src
                                        ELSE eml_attachment_url
               /\ pc' = IF r.bad THEN "raised" ELSE pc
        ELSE \E r \in NoteResponses(scope) :
               /\ calls' = Append(calls,
                    [op |-> "log_activity", type |-> "contact_note",
                     contact_id |-> contact_id, company_id |-> 0, text |-> text,
                     files |-> FALSE, attachment |-> eml_attachment_url,
                     response |-> r])
               /\ UNCHANGED <<eml_attachment_url, pc>>
  /\ idx' = idx + 1
  /\ UNCHANGED <<scope, ledger, runs, completed, msg, force, analysis,
                 participants, i, primary_company_id, resolved_contacts,
                 company_cache, contact_cache, primary_contact_id, file_content,
                 ledger0>>

\* the condition of the company-level note
CompanyNoteBranchNoUrl == primary_company_id # 0 /\ analysis.ok
CompanyNoteBranch ==
  primary_company_id # 0 /\ analysis.ok /\ eml_attachment_url # ""

\* after the note loop: the optional company-level note
CompanyNote ==
  /\ pc = "notes" /\ idx = Len(resolved_contacts)
  /\ IF CompanyNoteBranch
     THEN \E r \in NoteResponses(scope) :
            calls' = Append(calls,
                       [op |-> "log_activity", type |-> "company_note",
                        contact_id |-> 0, company_id |-> primary_company_id,
                        text |-> [label |-> "Email Activity", sentiment |-> "",
                                  intent |-> "", summary |-> analysis.summary],
                        files |-> FALSE, attachment |-> eml_attachment_url,
                        response |-> r])
     ELSE UNCHANGED calls
  /\ pc' = "tasks"
  /\ idx' = 0
  /\ UNCHANGED <<scope, ledger, runs, completed, msg, force, analysis, participants,
                 i, primary_company_id, resolved_contacts, company_cache,
                 contact_cache, primary_contact_id, file_content,
                 eml_attachment_url, ledger0>>

\* whether the task loop runs
HasTasks == primary_contact_id # 0 /\ analysis.ok /\ analysis.suggested_tasks # <<>>

\* create_task(primary_contact_id, task.description, task.due_date,
\*             task.priority, status=task.status)
TaskArgsDefaultStatus(task) ==
  [description |-> task.description, due_date |-> task.due_date,
   priority |-> task.priority, status |-> "todo"]
TaskArgs(task) ==
  [description |-> task.description, due_date |-> task.due_date,
   priority |-> task.priority, status |-> task.status]

\* one iteration of the task loop
CreateTask ==
  /\ pc = "tasks" /\ HasTasks /\ idx < Len(analysis.suggested_tasks)
  /\ calls' = Append(calls, [op |-> "create_task", contact_id |-> primary_contact_id,
                             task |-> TaskArgs(analysis.suggested_tasks[idx + 1])])
  /\ idx' = idx + 1
  /\ UNCHANGED <<scope, ledger, runs, completed, pc, msg, force, analysis,
                 participants, i, primary_company_id, resolved_contacts,
                 company_cache, contact_cache, primary_contact_id, file_content,
                 eml_attachment_url, ledger0>>

\* the condition of the deal branch
DealBranchAnyIntent ==
  /\ analysis.ok /\ analysis.deal_info.some
  /\ primary_company_id # 0
DealBranchDemoOnly ==
  /\ analysis.ok /\ analysis.deal_info.some
  /\ analysis.intent = "Demo"
  /\ primary_company_id # 0
DealBranch ==
  /\ analysis.ok /\ analysis.deal_info.some
  /\ analysis.intent \in {"Sales", "Demo"}
  /\ primary_company_id # 0

\* after the task loop: the deal branch; the ledger mark sits inside that branch
Deal ==
  /\ pc = "tasks" /\ (HasTasks => idx = Len(analysis.suggested_tasks))
  /\ IF DealBranch
     THEN /\ calls' = Append(calls,
                 [op |-> "create_deal", company_id |-> primary_company_id,
                  contact_ids |-> AllContactIds(resolved_contacts),
                  deal |-> analysis.deal_info])
          /\ pc' = "mark"
     ELSE /\ pc' = "done"
          /\ UNCHANGED calls
  /\ UNCHANGED <<scope, ledger, runs, completed, msg, force, analysis, participants,
                 i, primary_company_id, resolved_contacts, company_cache,
                 contact_cache, primary_contact_id, file_content,
                 eml_attachment_url, idx, ledger0>>

\* mark_as_processed(message_id), last statement of the deal branch
Mark ==
  /\ pc = "mark"
  /\ \E out \in MarkOutcomes(msg.id) :
       /\ ledger' = MarkAsProcessed(msg.id, ledger, out)
       /\ calls' = Append(calls, [op |-> "mark_as_processed", id |-> msg.id,
                                  outcome |-> out])
       /\ pc' = IF out = "connect_error" THEN "raised" ELSE "done"
  /\ UNCHANGED <<scope, runs, completed, msg, force, analysis, participants, i,
                 primary_company_id, resolved_contacts, company_cache, contact_cache,
                 primary_contact_id, file_content, eml_attachment_url, idx, ledger0>>

Finals == {"skipped", "raised", "halted", "done"}

IsActivity(c) == c.op = "log_activity"

\* main: an exception out of process is logged and the command exits with 1
ExitStatusZero(outcome) == 0
ExitStatus(outcome) == IF outcome = "raised" THEN 1 ELSE 0

\* process returns or raises: its locals are gone
Return ==
  /\ pc \in Finals
  /\ pc' = "idle"
  /\ completed' = IF /\ pc \in {"done", "halted", "skipped"} /\ ~force /\ msg.id # ""
                     /\ \E k \in 1..Len(calls) : IsActivity(calls[k])
                  THEN completed \cup {msg.id} ELSE completed
  /\ msg' = NoMessage /\ force' = FALSE /\ analysis' = NullAnalysis
  /\ participants' = <<>> /\ i' = 1
  /\ primary_company_id' = 0 /\ resolved_contacts' = <<>>
  /\ company_cache' = EmptyCache /\ contact_cache' = EmptyCache
  /\ primary_contact_id' = 0 /\ file_content' = FALSE /\ eml_attachment_url' = ""
  /\ idx' = 0 /\ calls' = <<>> /\ ledger0' = {}
  /\ UNCHANGED <<scope, ledger, runs>>

Next ==
  \/ ParseFail
  \/ ProcessBegin
  \/ Analyze
  \/ SkipInternal
  \/ ResolveExternal
  \/ ActionLogic
  \/ CreateNote
  \/ CompanyNote
  \/ CreateTask
  \/ Deal
  \/ Mark
  \/ Return

Spec == Init /\ [][Next]_vars
SpecResolve == InitResolve /\ [][Next]_vars
SpecSelect == InitSelect /\ [][Next]_vars
SpecNotes == InitNotes /\ [][Next]_vars
SpecCrm == InitCrm /\ [][Next]_vars
SpecEnrich == InitEnrich /\ [][Next]_vars
SpecRerun == InitRerun /\ [][Next]_vars
SpecSearch == InitSearch /\ [][Next]_vars
SpecParse == InitParse /\ [][Next]_vars

TypeOK ==
  /\ pc \in {"idle", "oracle", "resolve", "notes", "tasks", "mark"} \cup Finals
  /\ ledger \subseteq MessageIds
  /\ runs \in 0..MaxRuns

(***************************************************************************)
(* Vocabulary of the properties.                                           *)
(***************************************************************************)
CrmOps == {"upsert_company", "upsert_contact", "log_activity", "create_task",
           "create_deal"}
CreateOps == {"log_activity", "create_task", "create_deal"}

CallIdx(ops) == {k \in 1..Len(calls) : calls[k].op \in ops}

\* the run got past the ledger check and the oracle call
Analyzed == pc \in {"resolve", "notes", "tasks", "mark", "done", "halted"}
            \/ (pc = "raised" /\ \E k \in CallIdx({"analyze_text"}) :
                                    calls[k].result # "raise")

\* the spec's notion of an internal participant
ClassifiedInternal(a) ==
  \/ Lower(DomainOf(a)) \in {"corp.com"}
  \/ Lower(a) \in {"vip@partner.io"}

\* the only calls of a skipped run: the ledger lookup
OnlyLookup == \A k \in 1..Len(calls) : calls[k].op = "is_already_processed"

(***************************************************************************)
(* C1: a run with force=false on a message whose Message-ID is in the      *)
(* ledger is a no-op: no CRM, oracle or enrichment call, ledger unchanged. *)
(***************************************************************************)
\* C1 as stated: whatever the ledger lookup does
C1_DuplicateIsNoOp ==
  (pc # "idle" /\ ~force /\ msg.id \in ledger0)
    => (OnlyLookup /\ ledger = ledger0)

\* C1 amended: a run with force=false on a message whose Message-ID is in the
\* ledger and whose ledger lookup does not fail with a storage error is a
\* no-op: it ends skipped, its only call is the lookup, the ledger is unchanged
C1_DuplicateIsNoOpWhenLookupWorks ==
  (pc # "idle" /\ ~force /\ msg.id \in ledger0 /\ ~calls[1].error)
    => (pc = "skipped" /\ Len(calls) = 1 /\ OnlyLookup /\ ledger = ledger0)

C1_Witness ==
  pc = "skipped" /\ ~force /\ msg.id \in ledger0 /\ Len(calls) = 1

(***************************************************************************)
(* C2: exactly-once across runs.  Once a run with force=false on a message *)
(* with a non-empty Message-ID has created an activity and returned, no    *)
(* later run with force=false on that message issues a CRM create or       *)
(* upsert call.                                                            *)
(***************************************************************************)
C2_ExactlyOnceAcrossRuns ==
  (pc # "idle" /\ ~force /\ msg.id # "" /\ msg.id \in completed)
    => CallIdx(CrmOps) = {}

(***************************************************************************)
(* C3: in every run the ledger mark is invoked at most once, it is the     *)
(* last side effect of the run (no call follows it), and it is not invoked *)
(* in a run that ends with an exception or with the empty-result halt.     *)
(***************************************************************************)
C3_MarkOnceLastNeverOnFatalPath ==
  /\ Cardinality(CallIdx({"mark_as_processed"})) <= 1
  /\ \A k \in CallIdx({"mark_as_processed"}) :
       /\ k = Len(calls)
       /\ \A j \in CallIdx(CreateOps) : j < k
  /\ pc \in {"raised", "halted"} => CallIdx({"mark_as_processed"}) = {}

(***************************************************************************)
(* C4 (scenario B): a message with a non-empty Message-ID whose only       *)
(* participant is an external sender, the oracle returning null and the    *)
(* CRM upserts succeeding, ends with one resolved participant, one         *)
(* activity note without sentiment line, no task, no deal, and its         *)
(* Message-ID in the ledger.                                               *)
(***************************************************************************)
ScenarioB ==
  /\ msg.id # "" /\ msg.from # "" /\ ~ClassifiedInternal(msg.from)
  /\ msg.to = <<>> /\ msg.cc = <<>> /\ msg.bcc = <<>>
  /\ \E k \in CallIdx({"analyze_text"}) : calls[k].result = "none"
  /\ \A k \in CallIdx({"upsert_company", "upsert_contact"}) : calls[k].result # 0

C4_ScenarioB ==
  (pc \in Finals /\ ScenarioB)
    => /\ Len(resolved_contacts) = 1
       /\ Cardinality(CallIdx({"log_activity"})) = 1
       /\ \A k \in CallIdx({"log_activity"}) : calls[k].text.sentiment = ""
       /\ CallIdx({"create_task", "create_deal"}) = {}
       /\ msg.id \in ledger

(***************************************************************************)
(* C5 (scenario D): a run with force=true on a message whose Message-ID is *)
(* in the ledger is not skipped; when it reaches the end of the follow-ups *)
(* it has marked the ledger again as its last call, without an error, and  *)
(* the ledger content is what it was.                                      *)
(***************************************************************************)
C5_ForceReprocessesAndRemarks ==
  (pc # "idle" /\ force /\ msg.id \in ledger0)
    => /\ pc # "skipped"
       /\ ledger = ledger0
       /\ pc \in {"done", "raised"} /\ Analyzed
            => /\ pc = "done"
               /\ Len(calls) > 0
               /\ calls[Len(calls)].op = "mark_as_processed"

(***************************************************************************)
(* C6 (scenario C): when every participant of the message is internal the  *)
(* run resolves nobody, makes no CRM call and does not mark the ledger.    *)
(***************************************************************************)
AllInternal(m) ==
  \A a \in Range(ParticipantsRaw(m)) \ {""} : ClassifiedInternal(a)

C6_AllInternalNoCrmNoMark ==
  (pc # "idle" /\ AllInternal(msg))
    => /\ resolved_contacts = <<>>
       /\ CallIdx(CrmOps) = {}
       /\ CallIdx({"mark_as_processed"}) = {}
       /\ ledger = ledger0
       /\ pc \in {"skipped", "oracle", "resolve", "halted", "raised"}

C6_Witness ==
  /\ pc = "halted" /\ AllInternal(msg)
  /\ \E a, b \in Range(participants) :
       /\ Lower(DomainOf(a)) \in internal_domains
       /\ Lower(b) \in internal_emails

(***************************************************************************)
(* C7: a run in which no participant is resolved has created or updated no *)
(* CRM record, also when a company upsert succeeded and the contact upsert *)
(* of the same participant failed.                                         *)
(***************************************************************************)
\* the call wrote a record: a create call, or an upsert that posted or patched
Wrote(c) ==
  \/ c.op \in CreateOps
  \/ /\ c.op \in {"upsert_company", "upsert_contact"}
     /\ c.result # 0
     /\ \E k \in 1..Len(c.requests) : c.requests[k] \in {"POST", "PATCH"}

C7_EmptyResultNoSideEffect ==
  (pc = "halted") => \A k \in CallIdx(CrmOps) : ~Wrote(calls[k])

(***************************************************************************)
(* C8: no upsert_company and no upsert_contact call is made on behalf of a *)
(* participant whose domain is an internal domain or whose address is an   *)
(* internal address.                                                       *)
(***************************************************************************)
C8_InternalNeverUpserted ==
  \A k \in CallIdx({"upsert_company", "upsert_contact"}) :
    ~ClassifiedInternal(calls[k].addr)

C8_Witness ==
  /\ pc = "done"
  /\ \E a, b \in Range(participants) :
       /\ Lower(DomainOf(a)) \in internal_domains
       /\ Lower(b) \in internal_emails
  /\ CallIdx({"upsert_contact"}) # {}

(***************************************************************************)
(* C9: the participant list holds every non-empty address of From, To, Cc, *)
(* Bcc exactly once, in the order of first occurrence with the sender      *)
(* first; the resolved list holds no address twice, so an address that is  *)
(* in both To and Cc is resolved once.                                     *)
(***************************************************************************)
FirstPos(s, a) == CHOOSE k \in 1..Len(s) : s[k] = a /\ \A j \in 1..(k - 1) : s[j] # a

NoRepeat(s) == \A j, k \in 1..Len(s) : j # k => s[j] # s[k]

ResolvedEmails == [k \in 1..Len(resolved_contacts) |-> resolved_contacts[k][1]]

C10_OneUpsertPerDomainAndEmail ==
  /\ \A j, k \in CallIdx({"upsert_company"}) :
       calls[j].website = calls[k].website => j = k
  /\ \A j, k \in CallIdx({"upsert_contact"}) :
       calls[j].addr = calls[k].addr => j = k

\* C10 amended: upsert_contact is called at most once per address, and no
\* upsert_company call is made for a domain after a call for that domain has
\* returned an id; a call that returned None is repeated for the next
\* participant of the domain
C10_OneSuccessfulUpsertPerDomain ==
  /\ \A j, k \in CallIdx({"upsert_company"}) :
       (calls[j].website = calls[k].website /\ j < k) => calls[j].result = 0
  /\ \A j, k \in CallIdx({"upsert_contact"}) :
       calls[j].addr = calls[k].addr => j = k

C10_Witness ==
  /\ pc = "done"
  /\ \E j, k \in CallIdx({"upsert_contact"}) :
       /\ j < k
       /\ DomainOf(calls[j].addr) = DomainOf(calls[k].addr)
       /\ Cardinality({n \in CallIdx({"upsert_company"}) :
                         calls[n].website = DomainOf(calls[j].addr)}) = 1

(***************************************************************************)
(* C11: a participant whose company upsert or contact upsert returns null  *)
(* is not in the resolved list, and every other participant is still       *)
(* processed.                                                              *)
(***************************************************************************)
\* the loop has been through position j of the participant list
LoopPassed(j) == pc = "resolve" => j < i

\* an external participant the loop has been through got its contact upsert
RestProcessed ==
  \A j \in 1..Len(participants) :
    (LoopPassed(j) /\ ~ClassifiedInternal(participants[j]))
      => \E k \in CallIdx({"upsert_contact"}) : calls[k].addr = participants[j]

\* C11 as stated: a null company upsert drops the participant as well
C11_FailedUpsertDropsParticipant ==
  /\ \A k \in CallIdx({"upsert_company", "upsert_contact"}) :
       calls[k].result = 0 => calls[k].addr \notin Range(ResolvedEmails)
  /\ RestProcessed

\* C11 amended: a participant is in the resolved list exactly when its
\* contact upsert returned an id; a null company upsert alone does not drop
\* it (the contact upsert is still made); every other external participant
\* still gets its contact upsert, and no run ends with an exception right
\* after an upsert
C11_FailedContactUpsertDropsParticipant ==
  /\ \A k \in CallIdx({"upsert_contact"}) :
       /\ calls[k].result = 0 => calls[k].addr \notin Range(ResolvedEmails)
       /\ calls[k].result # 0
            => <<calls[k].addr, calls[k].result>> \in Range(resolved_contacts)
  /\ \A k \in CallIdx({"upsert_company"}) :
       \E n \in CallIdx({"upsert_contact"}) : n > k /\ calls[n].addr = calls[k].addr
  /\ RestProcessed
  /\ (pc = "raised" /\ calls # <<>>)
       => calls[Len(calls)].op \notin {"upsert_company", "upsert_contact"}

C11_Witness ==
  /\ pc = "done"
  /\ \E j, k \in CallIdx({"upsert_contact"}) :
       /\ j < k /\ calls[j].result = 0 /\ calls[k].result # 0
       /\ calls[k].addr \in Range(ResolvedEmails)
       /\ calls[j].addr \notin Range(ResolvedEmails)

(***************************************************************************)
(* C12: on every non-empty resolved list the primary contact is (1) the    *)
(* resolved participant whose email equals the suggested primary-contact   *)
(* email ignoring case, else (2) the first resolved participant whose      *)
(* email differs from the sender's, else (3) the first resolved            *)
(* participant; it is one contact id, a function of the resolved list, the *)
(* sender address and the suggestion.                                      *)
(***************************************************************************)
\* the run has selected its primary contact
Selected == pc \in {"notes", "tasks", "mark", "done"}
            \/ (pc = "raised" /\ CallIdx({"log_activity"}) # {})

MinOf(S) == CHOOSE k \in S : \A j \in S : k <= j

\* positions of the resolved list that match the suggestion ignoring case
SuggestedAt ==
  IF analysis.ok /\ analysis.primary_contact_email # ""
  THEN {k \in 1..Len(resolved_contacts) :
          Lower(resolved_contacts[k][1]) = Lower(analysis.primary_contact_email)}
  ELSE {}

\* positions of the resolved list whose email differs from the sender's
NotSenderAt == {k \in 1..Len(resolved_contacts) : resolved_contacts[k][1] # msg.from}

C12_PrimaryContactPriority ==
  Selected =>
    /\ resolved_contacts # <<>>
    /\ primary_contact_id =
         resolved_contacts[IF SuggestedAt # {} THEN MinOf(SuggestedAt)
                           ELSE IF NotSenderAt # {} THEN MinOf(NotSenderAt)
                           ELSE 1][2]
    /\ primary_contact_id # 0

C12_Witness ==
  /\ pc = "done"
  /\ SuggestedAt # {} /\ NotSenderAt # {}
  /\ MinOf(NotSenderAt) < MinOf(SuggestedAt)
  /\ resolved_contacts[MinOf(SuggestedAt)][1] # analysis.primary_contact_email
  /\ primary_contact_id = resolved_contacts[MinOf(SuggestedAt)][2]
  /\ primary_contact_id # resolved_contacts[MinOf(NotSenderAt)][2]
  /\ primary_contact_id # resolved_contacts[1][2]

(***************************************************************************)
(* C13: the primary company id is the first non-null company id obtained   *)
(* in participant order; once set it is not reassigned for the rest of the *)
(* run; it is absent exactly when no company was resolved in the run.      *)
(***************************************************************************)
\* the upsert_company calls of the run that returned an id.  A cache hit
\* repeats the id of an earlier call, so the first id obtained is the result
\* of the first of these calls
CompanyHits == {k \in CallIdx({"upsert_company"}) : calls[k].result # 0}

PrimaryCompanyIsFirst ==
  /\ CompanyHits = {} <=> primary_company_id = 0
  /\ CompanyHits # {} => primary_company_id = calls[MinOf(CompanyHits)].result

PrimaryCompanyKept ==
  (primary_company_id # 0 /\ pc' # "idle") => primary_company_id' = primary_company_id

C13_PrimaryCompanyIsFirstResolved ==
  [](PrimaryCompanyIsFirst) /\ [][PrimaryCompanyKept]_vars

C13_Witness ==
  /\ pc = "done"
  /\ \E n, j, k \in CallIdx({"upsert_company"}) :
       /\ n < j /\ j < k
       /\ calls[n].result = 0 /\ calls[j].result # 0 /\ calls[k].result # 0
       /\ calls[j].result # calls[k].result
       /\ primary_company_id = calls[j].result

(***************************************************************************)
(* C14: in every run at most one activity creation call carries the raw    *)
(* message file; it is the call for the first resolved participant, and no *)
(* later call of the run uploads the file again, also when that first call *)
(* failed.                                                                 *)
(***************************************************************************)
Activities == CallIdx({"log_activity"})

\* the activity calls that carry the file
Uploads == {k \in Activities : calls[k].files}

C14_UploadAtMostOnceOnFirst ==
  /\ Cardinality(Uploads) <= 1
  /\ \A k \in Uploads :
       /\ k = MinOf(Activities)
       /\ calls[k].type = "contact_note"
       /\ calls[k].contact_id = resolved_contacts[1][2]

C14_Witness ==
  /\ pc = "done"
  /\ Cardinality(Activities) >= 2
  /\ \E k \in Uploads : ~calls[k].response.ok
  /\ Cardinality(Uploads) = 1

(***************************************************************************)
(* C15: within one run every activity created after the first, and the     *)
(* company-level note, carries no attachment or an attachment whose URL is *)
(* the reference returned in the first activity's response; the captured   *)
(* reference is not changed for the rest of the run.                       *)
(***************************************************************************)
\* the reference the response of the first activity call returned, "" if none
FirstReference ==
  LET first == calls[MinOf(Activities)]
  IN  IF first.files /\ first.response.ok THEN first.response.src ELSE ""

LaterAttachmentsAreFirstReference ==
  \A k \in Activities :
    k # MinOf(Activities) => calls[k].attachment \in {"", FirstReference}

ReferenceKept ==
  (eml_attachment_url # "" /\ pc' # "idle") => eml_attachment_url' = eml_attachment_url

C15_AttachmentReferenceReused ==
  [](LaterAttachmentsAreFirstReference) /\ [][ReferenceKept]_vars

C15_Witness ==
  /\ pc = "done"
  /\ FirstReference # ""
  /\ \E j, k \in Activities :
       /\ j # MinOf(Activities) /\ calls[j].type = "contact_note"
       /\ calls[k].type = "company_note"
       /\ calls[j].attachment = FirstReference
       /\ calls[k].attachment = FirstReference

(***************************************************************************)
(* C16: if the file-carrying activity call for the first resolved          *)
(* participant fails, the run does not abort and a note record is still    *)
(* created for every resolved participant, the first one included (the CRM *)
(* accepting every call that carries no file).                             *)
(***************************************************************************)
UploadFailed == \E k \in Uploads : ~calls[k].response.ok

C16_UploadFailureKeepsEveryNote ==
  (UploadFailed /\ \A k \in Activities \ Uploads : calls[k].response.ok)
    => /\ pc = "raised" => calls[Len(calls)].op # "log_activity"
       /\ pc \in {"tasks", "mark", "done", "raised"}
            => \A n \in 1..Len(resolved_contacts) :
                 \E k \in Activities :
                   /\ calls[k].contact_id = resolved_contacts[n][2]
                   /\ calls[k].response.ok

(***************************************************************************)
(* C17: a run that resolves n >= 1 participants issues exactly n           *)
(* contact-level activity creation calls, one per resolved participant in  *)
(* resolved order, and creates at most one company-level note.             *)
(***************************************************************************)
ContactNotes == {k \in Activities : calls[k].type = "contact_note"}
CompanyNotes == {k \in Activities : calls[k].type = "company_note"}

C17_OneNotePerResolvedParticipant ==
  (pc \in Finals /\ Len(resolved_contacts) >= 1)
    => /\ Cardinality(ContactNotes) = Len(resolved_contacts)
       /\ \A k \in ContactNotes :
            calls[k].contact_id =
              resolved_contacts[Cardinality({j \in ContactNotes : j <= k})][2]
       /\ Cardinality(CompanyNotes) <= 1

(***************************************************************************)
(* C18: a company-level note is created only if a primary company was      *)
(* resolved, the analysis is non-null and an attachment URL was captured   *)
(* from the first activity; when one of the three is missing there is no   *)
(* company-level note.                                                     *)
(***************************************************************************)
AnalysisReturned ==
  \E k \in CallIdx({"analyze_text"}) : calls[k].result = "analysis"

C18_CompanyNoteOnlyWithCompanyAnalysisUrl ==
  \A k \in CompanyNotes :
    /\ CompanyHits # {}
    /\ AnalysisReturned
    /\ FirstReference # ""
    /\ calls[k].company_id = calls[MinOf(CompanyHits)].result

C18_Witness ==
  /\ pc = "done"
  /\ CompanyNotes # {}
  /\ Cardinality(ContactNotes) >= 2

(***************************************************************************)
(* C19: when the oracle call fails or returns null the run does not abort: *)
(* it still resolves participants, creates one base activity note per      *)
(* resolved participant without sentiment, intent or summary, and creates  *)
(* no task and no deal.                                                    *)
(***************************************************************************)
OracleFailed ==
  \E k \in CallIdx({"analyze_text"}) : calls[k].result \in {"raise", "none"}

C19_OracleSoftFailure ==
  (pc \in Finals /\ OracleFailed)
    => /\ pc # "raised"
       /\ RestProcessed
       /\ Cardinality(ContactNotes) = Len(resolved_contacts)
       /\ \A k \in ContactNotes :
            /\ calls[k].text.sentiment = ""
            /\ calls[k].text.intent = ""
            /\ calls[k].text.summary = ""
       /\ CallIdx({"create_task", "create_deal"}) = {}

(***************************************************************************)
(* C20: when the analysis is non-null and lists k >= 1 suggested tasks the *)
(* run issues exactly k create_task calls, in suggestion order, each on    *)
(* the primary contact id with the suggested due date, priority and status *)
(* unchanged; when the analysis is null or lists no task it issues none.   *)
(***************************************************************************)
CreateTasks == CallIdx({"create_task"})

\* the create_task calls are the suggestions, in order, on the primary contact
TasksAsSuggested ==
  IF analysis.ok /\ Len(analysis.suggested_tasks) >= 1
  THEN /\ Cardinality(CreateTasks) = Len(analysis.suggested_tasks)
       /\ \A c \in CreateTasks :
            LET task == analysis.suggested_tasks[
                          Cardinality({j \in CreateTasks : j <= c})]
            IN /\ calls[c].contact_id = primary_contact_id
               /\ calls[c].contact_id \in Range(AllContactIds(resolved_contacts))
               /\ calls[c].task.description = task.description
               /\ calls[c].task.due_date = task.due_date
               /\ calls[c].task.priority = task.priority
               /\ calls[c].task.status = task.status
  ELSE CreateTasks = {}

\* the run is past the task loop
TasksDone == pc \in {"mark", "done"}
             \/ (pc = "raised" /\ CallIdx({"mark_as_processed"}) # {})

CreateDeals == CallIdx({"create_deal"})

\* the deal facts call for a deal and a company was resolved
DealExpected ==
  /\ analysis.ok /\ analysis.deal_info.some
  /\ analysis.intent \in {"Sales", "Demo"}
  /\ CompanyHits # {}

\* one deal on the primary company with every resolved contact, or none
DealAsStated ==
  IF DealExpected
  THEN /\ Cardinality(CreateDeals) = 1
       /\ \A d \in CreateDeals :
            /\ calls[d].company_id = calls[MinOf(CompanyHits)].result
            /\ calls[d].contact_ids =
                 [k \in 1..Len(resolved_contacts) |-> resolved_contacts[k][2]]
            /\ calls[d].deal = analysis.deal_info
  ELSE CreateDeals = {}

Searches == CallIdx({"web_search_company"})

DetailFields == {"name", "sector", "description"}

\* the enrichment calls whose result was merged into the company facts
Merges == {k \in Searches : calls[k].result.some}

LastOf(S) == CHOOSE k \in S : \A j \in S : j <= k

FillOnlyEmpty(before, result, after) ==
  \A f \in DetailFields :
    /\ before[f] # "" => after[f] = before[f]
    /\ after[f] # before[f] => (before[f] = "" /\ after[f] = result[f])

C22_FillOnlyEmpty ==
  /\ \A k \in Merges : FillOnlyEmpty(calls[k].before, calls[k].result, calls[k].after)
  /\ \A k \in Searches \ Merges : calls[k].after = calls[k].before
  /\ (Searches # {} /\ pc \in {"resolve", "notes", "tasks", "mark", "done", "halted"})
       => analysis.company_details = calls[LastOf(Searches)].after

\* a merge that keeps a name the result disagrees with and fills the sector
C22_Witness ==
  /\ pc = "done"
  /\ \E k \in Merges :
       /\ calls[k].before.some /\ calls[k].before.name # ""
       /\ calls[k].result.name # calls[k].before.name
       /\ calls[k].before.sector = "" /\ calls[k].after.sector # ""
       /\ calls[k].after.name = calls[k].before.name

(***************************************************************************)
(* C23: a message without a Message-ID header is treated as never          *)
(* processed and is never marked: the ledger lookup answers false for the  *)
(* empty identifier, marking the empty identifier leaves the ledger        *)
(* unchanged, and so every run on such a message executes the pipeline.    *)
(***************************************************************************)
\* parse_eml raised: the run ended before its first collaborator call
ParseFailed == pc = "raised" /\ calls = <<>>

\* a run on a parsed message that carries no Message-ID
RunWithoutId == pc # "idle" /\ ~ParseFailed /\ msg.id = ""

C23_NoMessageIdNeverSkippedNeverMarked ==
  /\ "" \notin ledger
  /\ RunWithoutId =>
       /\ pc # "skipped"
       /\ ~force => calls[1] = [op |-> "is_already_processed", id |-> "",
                                error |-> FALSE]
       /\ pc # "oracle" => CallIdx({"analyze_text"}) # {}
       /\ ledger = ledger0

\* a later run on a message without Message-ID that went through to the mark
C23_Witness ==
  /\ RunWithoutId /\ pc = "done" /\ ~force /\ runs = 2
  /\ \E k \in CallIdx({"mark_as_processed"}) : calls[k].id = ""
  /\ CallIdx({"log_activity"}) # {}

(***************************************************************************)
(* C24: a fatal parse error aborts the whole invocation: process raises    *)
(* before the ledger check, no oracle, enrichment or CRM call is made, the *)
(* ledger is not marked, and the command ends with a non-zero exit status. *)
(***************************************************************************)
\* the step of a run that raises before anything else happened
RaisesAtStart == pc = "idle" /\ pc' = "raised"

\* nothing was called, nothing was written, and main exits with an error
AbortedUntouched ==
  /\ calls = <<>> /\ msg = NoMessage
  /\ ledger = ledger0
  /\ ExitStatus(pc) # 0

C24_ParseFailureAborts ==
  /\ [](ParseFailed => AbortedUntouched)
  /\ [][RaisesAtStart => (ParseFailed' /\ ledger' = ledger)]_vars
  /\ [][ParseFailed => (pc' = "idle" /\ ledger' = ledger)]_vars

\* a parse failure of a later invocation, with a marked ledger
C24_Witness == ParseFailed /\ runs = 2 /\ ledger # {}

(***************************************************************************)
(* C25: once parsing has succeeded, no failure of a collaborator makes     *)
(* process terminate with an exception: for every outcome of any oracle,   *)
(* enrichment, CRM or ledger call the run ends either at the empty-result  *)
(* halt or at the end of the follow-up step.                               *)
(***************************************************************************)
C25_NoCollaboratorFailureRaises == pc = "raised" => ParseFailed

(***************************************************************************)
(* C26: upsert_company never duplicates an existing company: for every     *)
(* call with a non-public website, if the search by website or, failing    *)
(* that, the search by name returns an existing company, the call returns  *)
(* that company's id and issues no create request, whether or not there    *)
(* are facts to update; a create request is issued only when neither       *)
(* search found a company.                                                 *)
(***************************************************************************)
PublicMailboxDomains == {"gmail.com", "outlook.com", "yahoo.com", "hotmail.com",
                         "icloud.com", "me.com", "msn.com"}

\* the upsert_company calls of the run for a website that is not a public mailbox
CompanyUpserts ==
  {k \in CallIdx({"upsert_company"}) :
     Lower(calls[k].website) \notin PublicMailboxDomains}

C26_UpsertCompanyNeverDuplicates ==
  \A k \in CompanyUpserts :
    /\ calls[k].found # "none" =>
         /\ calls[k].result = CompanyIdOf(calls[k].website)
         /\ "POST" \notin Range(calls[k].requests)
    /\ "POST" \in Range(calls[k].requests) => calls[k].found = "none"

(***************************************************************************)
(* C27: upsert_contact searches by email before creating: if the search    *)
(* returns an existing contact the call returns that contact's id, issues  *)
(* at most one update request and no create request; a create request is   *)
(* issued only when the search found no contact.                           *)
(***************************************************************************)
ContactUpserts == CallIdx({"upsert_contact"})

Count(reqs, r) == Cardinality({j \in 1..Len(reqs) : reqs[j] = r})

C27_UpsertContactSearchesFirst ==
  \A k \in ContactUpserts :
    /\ calls[k].requests # <<>> /\ calls[k].requests[1] = "GET email"
    /\ calls[k].found =>
         /\ calls[k].result = ContactIdOf(calls[k].addr)
         /\ Count(calls[k].requests, "PATCH") <= 1
         /\ Count(calls[k].requests, "POST") = 0
    /\ Count(calls[k].requests, "POST") >= 1 =>
         /\ ~calls[k].found
         /\ Count(calls[k].requests, "POST") = 1

\* one run with an existing contact that is updated and a new one that is created
C27_Witness ==
  /\ pc = "done"
  /\ \E j, k \in ContactUpserts :
       /\ calls[j].found /\ calls[j].requests = <<"GET email", "PATCH">>
       /\ ~calls[k].found /\ calls[k].requests = <<"GET email", "POST">>
       /\ calls[k].result # 0

(***************************************************************************)
(* C28: for every domain in the public mailbox set, upsert_company returns *)
(* null without issuing any search, update or create request, so no        *)
(* company record is ever created for a consumer email domain in any run.  *)
(***************************************************************************)
\* the upsert_company calls of the run for a public mailbox domain
PublicUpserts == CallIdx({"upsert_company"}) \ CompanyUpserts

C28_PublicDomainNoCompany ==
  /\ \A k \in PublicUpserts : calls[k].result = 0 /\ calls[k].requests = <<>>
  /\ \A d \in PublicMailboxDomains \cap DOMAIN company_cache : company_cache[d] = 0
  /\ \A k \in ContactUpserts :
       Lower(DomainOf(calls[k].addr)) \in PublicMailboxDomains =>
         calls[k].company_id \in {0} \cup {calls[j].result : j \in CompanyUpserts}

\* a run that resolves a gmail.com contact next to a company contact
C28_Witness ==
  /\ pc = "done"
  /\ \E k \in PublicUpserts : calls[k].website = "gmail.com"
  /\ \E k \in 1..Len(resolved_contacts) :
       DomainOf(resolved_contacts[k][1]) = "gmail.com"
  /\ CompanyHits # {}

(***************************************************************************)
(* C29: Scenario A: for a message from sarah@cyberdyne.ai to one internal  *)
(* and one external recipient, with the oracle returning sentiment         *)
(* Positive, intent Sales, one task and one deal with stage discovery, and *)
(* all CRM calls succeeding, the run resolves one company for              *)
(* cyberdyne.ai, resolves exactly two contacts (sender and external        *)
(* recipient, the internal one skipped), creates exactly one task on the   *)
(* primary contact and exactly one deal whose contact list holds both      *)
(* resolved contact ids.                                                   *)
(***************************************************************************)
Recipients == msg.to \o msg.cc \o msg.bcc

\* the external recipients of the message, another person than the sender
ExternalRecipients ==
  {k \in 1..Len(Recipients) :
     ~ClassifiedInternal(Recipients[k]) /\ Lower(Recipients[k]) # Lower(msg.from)}

ScenarioA ==
  /\ msg.from = "sarah@cyberdyne.ai"
  /\ Len(Recipients) = 2
  /\ \E k \in 1..2 : ClassifiedInternal(Recipients[k])
  /\ Cardinality(ExternalRecipients) = 1
  /\ analysis.ok /\ analysis.sentiment = "Positive" /\ analysis.intent = "Sales"
  /\ Len(analysis.suggested_tasks) = 1
  /\ analysis.deal_info.some /\ analysis.deal_info.stage = "discovery"
  /\ \A k \in ContactUpserts : calls[k].result # 0
  /\ \A k \in CompanyUpserts : calls[k].result # 0

ScenarioAExpected ==
  LET ext == Recipients[MinOf(ExternalRecipients)]
  IN /\ Cardinality({k \in CompanyHits : calls[k].website = "cyberdyne.ai"}) = 1
     /\ Len(resolved_contacts) = 2
     /\ resolved_contacts[1][1] = "sarah@cyberdyne.ai"
     /\ resolved_contacts[2][1] = ext
     /\ resolved_contacts[1][2] # resolved_contacts[2][2]
     /\ Cardinality(CreateTasks) = 1
     /\ \A t \in CreateTasks :
          /\ calls[t].contact_id = primary_contact_id
          /\ calls[t].contact_id \in {resolved_contacts[1][2], resolved_contacts[2][2]}
     /\ Cardinality(CreateDeals) = 1
     /\ \A d \in CreateDeals :
          /\ calls[d].contact_ids = <<resolved_contacts[1][2], resolved_contacts[2][2]>>
          /\ calls[d].deal.stage = "discovery"

C29_ScenarioA == (pc \in Finals /\ ScenarioA) => (TasksDone /\ ScenarioAExpected)

C29_Witness ==
  /\ pc = "done" /\ ScenarioA
  /\ Cardinality(CreateDeals) = 1 /\ Cardinality(CreateTasks) = 1

(***************************************************************************)
(* C30: in any run the web-search enrichment call is invoked at most once, *)
(* regardless of the number of external participants and of the result of  *)
(* that call; its result is reused for every later participant.            *)
(***************************************************************************)
C30_WebSearchAtMostOnce == Cardinality(Searches) <= 1

(***************************************************************************)
(* C31: the company cache holds a domain only if an upsert_company call    *)
(* for that domain returned a non-null id earlier in the same run, the     *)
(* cached value equals that id, and after the domain is cached no further  *)
(* upsert_company call for it is made in the run; a failed upsert leaves   *)
(* the cache unchanged.                                                    *)
(***************************************************************************)
AllCompanyUpserts == CallIdx({"upsert_company"})

\* the participant loop is running or the run is past it
CachesLive == pc \in {"resolve", "notes", "tasks", "mark", "done", "halted"}

C31_CompanyCacheOnlyOnSuccess ==
  CachesLive =>
    /\ DOMAIN company_cache = {calls[k].website : k \in CompanyHits}
    /\ \A k \in CompanyHits :
         /\ company_cache[calls[k].website] = calls[k].result
         /\ \A j \in AllCompanyUpserts : j > k => calls[j].website # calls[k].website
    /\ \A k \in AllCompanyUpserts \ CompanyHits :
         calls[k].website \in DOMAIN company_cache =>
           \E j \in CompanyHits : j > k /\ calls[j].website = calls[k].website

\* two participants of one domain: the first upsert failed and was retried,
\* the second succeeded and was cached
C31_Witness ==
  /\ pc = "done"
  /\ \E j \in AllCompanyUpserts \ CompanyHits : \E k \in CompanyHits :
       /\ j < k /\ calls[j].website = calls[k].website /\ calls[j].requests # <<>>
       /\ company_cache[calls[k].website] = calls[k].result

(***************************************************************************)
(* C32: the resolution caches are fresh per invocation: at the start of    *)
(* every run of process both caches are empty, so a domain or email        *)
(* resolved in an earlier run on the same processor triggers a new upsert  *)
(* call in the next run, and nothing resolved in one run is visible to     *)
(* another.                                                                *)
(***************************************************************************)
ContactHits == {k \in ContactUpserts : calls[k].result # 0}

\* the run has not entered the participant loop, or stands at its first pass
LoopNotEntered ==
  \/ pc \in {"idle", "oracle", "skipped"} \/ ParseFailed
  \/ (pc = "resolve" /\ i = 1)

\* the external participants the loop has passed
Passed == {k \in 1..Len(participants) : k < i /\ ~ClassifiedInternal(participants[k])}

C32_CachesFreshPerRun ==
  /\ LoopNotEntered => (company_cache = << >> /\ contact_cache = << >>)
  /\ CachesLive =>
       /\ DOMAIN company_cache \subseteq {calls[k].website : k \in CompanyHits}
       /\ DOMAIN contact_cache \subseteq {calls[k].addr : k \in ContactHits}
       /\ \A k \in Passed :
            /\ \E c \in ContactUpserts : calls[c].addr = participants[k]
            /\ \E c \in AllCompanyUpserts :
                 calls[c].website = DomainOf(participants[k])

\* a later run on the processor, after a run that resolved sarah@cyberdyne.ai
\* (every message of this specification is from that address), upserts the
\* company and the contact again
C32_Witness ==
  /\ runs = 2 /\ completed # {} /\ pc = "done"
  /\ \E k \in CompanyHits :
       calls[k].website = "cyberdyne.ai" /\ calls[k].requests # <<>>
  /\ \E k \in ContactHits :
       calls[k].addr = "sarah@cyberdyne.ai" /\ calls[k].requests # <<>>

(***************************************************************************)
(* C33: the ledger only grows: over any sequence of is_already_processed   *)
(* and mark_as_processed calls no entry is removed or altered, marking an  *)
(* identifier already present leaves the ledger unchanged, and after       *)
(* mark_as_processed(id) with a non-empty id every later                   *)
(* is_already_processed(id) returns true.                                  *)
(***************************************************************************)
LedgerGrows == ledger \subseteq ledger'

\* the step in which mark_as_processed(msg.id) returns
MarkReturned == pc = "mark" /\ pc' = "done"

RemarkIsNoOp == (MarkReturned /\ msg.id \in ledger) => ledger' = ledger

\* the write of the mark that returned in this step went through
WriteWentThrough == calls'[Len(calls')].outcome = "ok"

\* the run began with the ledger lookup for its message
LookedUp == pc # "idle" /\ ~ParseFailed /\ ~force

\* C33 as stated: whatever the storage does
C33_LedgerOnlyGrows ==
  /\ [][LedgerGrows /\ RemarkIsNoOp]_vars
  /\ [][(MarkReturned /\ msg.id # "") =>
          \A err \in BOOLEAN : IsAlreadyProcessed(msg.id, ledger', err)]_vars
  /\ []((LookedUp /\ msg.id \in ledger0) => pc = "skipped")

\* C33 for the writes that went through and the lookups that reached the storage
C33_LedgerOnlyGrowsWhenStorageWorks ==
  /\ [][LedgerGrows /\ RemarkIsNoOp]_vars
  /\ [][(MarkReturned /\ msg.id # "") =>
          IF WriteWentThrough
          THEN msg.id \in ledger' /\ IsAlreadyProcessed(msg.id, ledger', FALSE)
          ELSE ledger' = ledger]_vars
  /\ []((LookedUp /\ msg.id \in ledger0 /\ ~calls[1].error) => pc = "skipped")
  /\ []((LookedUp /\ msg.id \notin ledger0) => pc # "skipped")

\* a later run finds the identifier an earlier run marked and is skipped
C33_Witness ==
  /\ runs = 2 /\ pc = "skipped" /\ msg.id \in ledger0
  /\ calls = <<[op |-> "is_already_processed", id |-> msg.id, error |-> FALSE]>>

(***************************************************************************)
(* C34: every upsert_contact call of a run passes as company id the id     *)
(* resolved for that participant's own domain when it is non-null, and     *)
(* otherwise the primary company candidate held at that moment (null when  *)
(* no company has been resolved yet).                                      *)
(***************************************************************************)
\* the successful upsert_company calls before call k
HitsBefore(k) == {j \in CompanyHits : j < k}

\* the id resolved for the domain of the participant of call k, None if none
OwnCompany(k) ==
  LET own == {j \in HitsBefore(k) : calls[j].website = DomainOf(calls[k].addr)}
  IN  IF own = {} THEN 0 ELSE calls[MinOf(own)].result

\* the primary company candidate when call k is made
CandidateAt(k) ==
  IF HitsBefore(k) = {} THEN 0 ELSE calls[MinOf(HitsBefore(k))].result

C34_ContactCompanyOwnElsePrimary ==
  \A k \in ContactUpserts :
    calls[k].company_id = IF OwnCompany(k) # 0 THEN OwnCompany(k) ELSE CandidateAt(k)

\* one contact attached to the company of its own domain and one, whose
\* company was not resolved, attached to the candidate
C34_Witness ==
  /\ pc = "done"
  /\ \E k \in ContactUpserts :
       /\ OwnCompany(k) = 0 /\ CandidateAt(k) # 0
       /\ calls[k].company_id = CandidateAt(k)
  /\ \E k \in ContactUpserts :
       OwnCompany(k) # 0 /\ calls[k].company_id = OwnCompany(k)

(***************************************************************************)
(* C35: enrichment fallback is sequential: web_search_company tries        *)
(* website scraping first when the query contains a domain, then the       *)
(* configured providers in their configured order; it returns the first    *)
(* non-null company facts obtained, a failure of one method never prevents *)
(* trying the next, and it returns null only when every method failed.     *)
(***************************************************************************)
\* the methods a call with this query has at its disposal, in order
MethodsFor(query) ==
  (IF ExtractDomainFromQuery(query) # "" THEN <<"scrape">> ELSE <<>>)
    \o <<"duckduckgo", "serper", "serpapi">>

\* the facts method p of call k yields when it is tried, None when it fails
FactsOfMethod(k, p) ==
  LET methods == MethodsFor(calls[k].query)
      offset == Len(methods) - 3
  IN  IF methods[p] = "scrape" THEN calls[k].env.scrape
      ELSE IF calls[k].env.providers[p - offset] = "facts"
           THEN Details("Cyberdyne Systems", "", "Skynet")
           ELSE NoneDetails

C35_SequentialFallback ==
  \A k \in Searches :
    LET methods == MethodsFor(calls[k].query)
        good == {p \in 1..Len(methods) : FactsOfMethod(k, p).some}
    IN  IF good = {}
        THEN calls[k].result = NoneDetails /\ calls[k].tried = methods
        ELSE /\ calls[k].result = FactsOfMethod(k, MinOf(good))
             /\ calls[k].tried = SubSeq(methods, 1, MinOf(good))

(***************************************************************************)
(* C36: for a multipart message with several text/plain (respectively      *)
(* text/html) parts not marked as attachments, the parsed plain            *)
(* (respectively HTML) body is the content of the first such part in walk  *)
(* order, and every part carrying a filename is in the attachment list     *)
(* whatever its content type.                                              *)
(***************************************************************************)
\* the positions of the parts of a content type that are not attachments
BodyParts(type) ==
  {k \in 1..Len(msg.parts) :
     msg.parts[k].type = type /\ msg.parts[k].disposition # "attachment"}

FirstBody(type) ==
  IF BodyParts(type) = {} THEN "" ELSE msg.parts[MinOf(BodyParts(type))].payload

\* a multipart message went through parse_eml
ParsedMultipart == pc # "idle" /\ ~ParseFailed /\ msg.multipart

C36_FirstBodyPartsAndAllFilenames ==
  ParsedMultipart =>
    /\ msg.body = FirstBody("text/plain")
    /\ msg.html_body = FirstBody("text/html")
    /\ \A k \in 1..Len(msg.parts) :
         msg.parts[k].filename # "" =>
           msg.parts[k].filename \in Range(msg.attachments)
    /\ Len(msg.attachments) =
         Cardinality({k \in 1..Len(msg.parts) : msg.parts[k].filename # ""})

(***************************************************************************)
(* C37: whenever a run reaches activity creation, the primary contact id   *)
(* is the contact id of a member of the resolved list, so every task of    *)
(* the run is attached to a contact that was resolved in that same run.    *)
(***************************************************************************)
ResolvedIds == {resolved_contacts[k][2] : k \in 1..Len(resolved_contacts)}

C37_PrimaryContactIsResolved ==
  Selected =>
    /\ primary_contact_id \in ResolvedIds
    /\ ResolvedIds \subseteq {calls[k].result : k \in ContactHits}
    /\ \A t \in CreateTasks : calls[t].contact_id \in ResolvedIds

\* the oracle suggests a contact that was not resolved in the run; the task
\* goes to a resolved one
C37_Witness ==
  /\ pc = "done" /\ CreateTasks # {}
  /\ analysis.primary_contact_email # "" /\ SuggestedAt = {}
  /\ \E k \in ContactUpserts :
       /\ Lower(calls[k].addr) = Lower(analysis.primary_contact_email)
       /\ calls[k].result = 0

(***************************************************************************)
(* C38: whenever a deal or a company-level note is created, its company id *)
(* (the primary company) is the company id that was resolved for at least  *)
(* one participant in the resolved list of that run.                       *)
(***************************************************************************)
\* the calls that attach something to a company
CompanyLinked == CreateDeals \cup CompanyNotes

\* the resolved participants whose contact was upserted with company id c
ResolvedWith(c) ==
  {k \in 1..Len(resolved_contacts) :
     \E u \in ContactHits : /\ calls[u].addr = resolved_contacts[k][1]
                            /\ calls[u].company_id = c}

\* C38 as stated
C38_PrimaryCompanyOfResolvedParticipant ==
  \A c \in CompanyLinked : ResolvedWith(calls[c].company_id) # {}

\* the participant for whom the first company of the run was resolved
FirstCompanyAddr == calls[MinOf(CompanyHits)].addr

\* C38 for the company the code links to: the first one resolved in the run,
\* whose participant is in the resolved list only if its contact was resolved
C38_PrimaryCompanyOfFirstResolvedCompany ==
  \A c \in CompanyLinked :
    /\ CompanyHits # {}
    /\ calls[c].company_id = calls[MinOf(CompanyHits)].result
    /\ calls[c].company_id # 0
    /\ FirstCompanyAddr \in Range(participants)
    /\ ~ClassifiedInternal(FirstCompanyAddr)
    /\ (\E k \in 1..Len(resolved_contacts) :
          resolved_contacts[k][1] = FirstCompanyAddr)
         => ResolvedWith(calls[c].company_id) # {}

\* a deal and a company note on the company of a participant whose contact
\* could not be resolved
C38_Witness ==
  /\ pc = "done" /\ CreateDeals # {} /\ CompanyNotes # {}
  /\ \A c \in CompanyLinked : ResolvedWith(calls[c].company_id) = {}

(***************************************************************************)
(* C39: the ledger check is fail-open: if the ledger lookup fails with a   *)
(* storage error, is_already_processed returns false without raising, so   *)
(* a run with force=false processes the message as if it had never been    *)
(* seen.                                                                   *)
(***************************************************************************)
\* the ledger lookup of the run hit a storage error
LookupFailed == LookedUp /\ calls[1].op = "is_already_processed" /\ calls[1].error

C39_LedgerCheckFailOpen ==
  /\ LookedUp => calls[1].op = "is_already_processed"
  /\ LookupFailed =>
       /\ pc # "skipped"
       /\ pc # "oracle" => (Len(calls) >= 2 /\ calls[2].op = "analyze_text")
       /\ pc = "raised" => calls[Len(calls)].op # "is_already_processed"

\* a message an earlier run marked is processed again, to the end
C39_Witness ==
  /\ LookupFailed /\ msg.id \in ledger0 /\ pc = "done"
  /\ CallIdx({"log_activity"}) # {}

(***************************************************************************)
(* C40: when the oracle returns null, the run makes no web-search          *)
(* enrichment call, and every company upsert of the run uses the           *)
(* participant's domain as the company name with no extra facts.           *)
(***************************************************************************)
\* analyze_text answered None in the run
OracleNull == \E k \in CallIdx({"analyze_text"}) : calls[k].result = "none"

C40_NullOracleNoEnrichment ==
  OracleNull =>
    /\ Searches = {}
    /\ \A u \in AllCompanyUpserts :
         /\ calls[u].name = DomainOf(calls[u].addr)
         /\ calls[u].name = calls[u].website
         /\ calls[u].kwargs = NoKwargs

\* a finished run without analysis that upserted a company
C40_Witness == OracleNull /\ pc = "done" /\ AllCompanyUpserts # {}

=============================================================================
